---- MODULE Spec2Model ----
(***************************************************************************)
(* Roving tab index focus registry of matrix-react-sdk                     *)
(* (src/unnamed/part_000, accessibility/RovingTabIndex.tsx).               *)
(*                                                                         *)
(* The state is the reducer's IState { activeRef, refs }.  A Ref is an     *)
(* object { current: HTMLElement }; refs are compared by identity, their   *)
(* elements by compareDocumentPosition.  Every action of the model is one  *)
(* whole dispatch of the reducer or one whole run of onKeyDownHandler.     *)
(***************************************************************************)
EXTENDS Integers, Sequences, FiniteSets, TLC

\* ---------------------------------------------------------------- bounds
\* number of distinct Ref objects the surrounding tree may create
NumRefs == 3
\* cap on refs.length (the code has none; a broken insert can add a ref twice)
MaxRefs == 3
\* largest number of joined members of a room
MaxMembers == 4

\* ------------------------------------------------------ values and types
\* Ref objects, identified by the order of their creation
Refs == 1..NumRefs

\* activeRef: null of the initial state
Null == 0

\* what refs[k] evaluates to in JavaScript when k is outside the array
Undefined == 0 - 1

\* ref.current: the DOM element of a ref, named by its position in the
\* document (element 1 is the first in document order).  Refs are created
\* in an order unrelated to the document order of their elements.
Current(ref) == (NumRefs + 1) - ref

DOCUMENT_POSITION_PRECEDING == 2

\* node.compareDocumentPosition(other): the bitmask the DOM returns for two
\* connected nodes neither of which contains the other
compareDocumentPosition(node, other) ==
    IF other < node THEN DOCUMENT_POSITION_PRECEDING
    ELSE IF other > node THEN 4  \* Node.DOCUMENT_POSITION_FOLLOWING
    ELSE 0

\* mask & DOCUMENT_POSITION_PRECEDING, as a truth value
HasPrecedingBit(mask) == (mask \div DOCUMENT_POSITION_PRECEDING) % 2 = 1

\* -------------------------------------------------- JavaScript array ops
\* arr[k] for a 0-based k
At(arr, k) == IF k >= 0 /\ k < Len(arr) THEN arr[k + 1] ELSE Undefined

\* arr.splice(index, 0, item): the array after the insertion
SpliceInsert(arr, index, item) ==
    SubSeq(arr, 1, index) \o <<item>> \o SubSeq(arr, index + 1, Len(arr))

\* a removal that takes the next entry along
SpliceRemove_Two(arr, index) ==
    SubSeq(arr, 1, index) \o SubSeq(arr, index + 3, Len(arr))

\* arr.splice(index, 1): the array after the removal
SpliceRemove(arr, index) ==
    SubSeq(arr, 1, index) \o SubSeq(arr, index + 2, Len(arr))

\* arr.findIndex(r => r === item) and arr.indexOf(item): first index or -1
IndexOf(arr, item) ==
    IF \E k \in 1..Len(arr) : arr[k] = item
    THEN (CHOOSE k \in 1..Len(arr) :
              arr[k] = item /\ \A j \in 1..(k - 1) : arr[j] # item) - 1
    ELSE 0 - 1

\* the refs held by an array
Elems(arr) == {arr[k] : k \in 1..Len(arr)}

\* ---------------------------------------------------------------- state
VARIABLES
    activeRef,  \* IState.activeRef: a Ref, Null or Undefined
    refs,       \* IState.refs: sequence of Refs
    last,       \* the dispatch or key event that produced this state
    room,       \* client.getRoom(roomId) of the permalink being made
    pc,         \* where the call of pickServerCandidates stands
    candidates  \* what pickServerCandidates returned

vars == <<activeRef, refs, last, room, pc, candidates>>

\* the state of the permalink code
matrixToVars == <<room, pc, candidates>>

State == [activeRef |-> activeRef, refs |-> refs]

\* ------------------------------------------------------------- reducer
\* enum Type
Type_Register == "REGISTER"

Type_Unregister == "UNREGISTER"

Type_SetFocus == "SET_FOCUS"

\* The while loop of the Register case: the binary search over state.refs.
\* found: the loop returned early because the element is already in refs;
\* otherwise index is the value the variable `index` holds when the loop ends.
RECURSIVE BinarySearch(_, _, _, _, _)
BinarySearch(arr, ref, left, right, index) ==
    IF ~(left <= right) THEN [found |-> FALSE, index |-> index]
    ELSE LET mid  == (left + right) \div 2
             elem == Current(arr[mid + 1])
         IN  IF elem = Current(ref) THEN [found |-> TRUE, index |-> mid]
             ELSE IF HasPrecedingBit(compareDocumentPosition(Current(ref), elem))
                  THEN BinarySearch(arr, ref, mid + 1, right, mid)
                  ELSE BinarySearch(arr, ref, left, mid - 1, mid)

\* a Register case that makes every newly inserted ref the active one
ReduceRegister_AlwaysActive(state, ref) ==
    IF Len(state.refs) = 0
    THEN [activeRef |-> ref, refs |-> <<ref>>]
    ELSE LET search == BinarySearch(state.refs, ref, 0, Len(state.refs) - 1,
                                    Len(state.refs))
         IN  IF search.found THEN state
             ELSE [activeRef |-> ref,
                   refs |-> SpliceInsert(state.refs, search.index, ref)]

\* case Type.Register
ReduceRegister(state, ref) ==
    IF Len(state.refs) = 0
    THEN [activeRef |-> ref, refs |-> <<ref>>]
    ELSE LET search == BinarySearch(state.refs, ref, 0, Len(state.refs) - 1,
                                    Len(state.refs))
         IN  IF search.found THEN state
             ELSE [state EXCEPT !.refs = SpliceInsert(state.refs, search.index, ref)]

\* a replacement that picks the ref before the removed one
ReplacementRef_Previous(arr, oldIndex) == At(arr, oldIndex - 1)

\* the activeRef chosen after the active ref was removed from index oldIndex;
\* arr is state.refs after the removal
ReplacementRef(arr, oldIndex) ==
    IF oldIndex >= Len(arr) THEN At(arr, Len(arr) - 1) ELSE At(arr, oldIndex)

\* an Unregister case that never replaces the active ref
ReduceUnregister_KeepActive(state, ref) ==
    LET oldIndex == IndexOf(state.refs, ref)
    IN  IF oldIndex = 0 - 1 THEN state
        ELSE [activeRef |-> state.activeRef,
              refs |-> SpliceRemove(state.refs, oldIndex)]

\* case Type.Unregister
ReduceUnregister(state, ref) ==
    LET oldIndex == IndexOf(state.refs, ref)
    IN  IF oldIndex = 0 - 1 THEN state
        ELSE LET removed == At(state.refs, oldIndex)
                 rest    == SpliceRemove(state.refs, oldIndex)
             IN  IF removed = state.activeRef
                 THEN [activeRef |-> ReplacementRef(rest, oldIndex), refs |-> rest]
                 ELSE [activeRef |-> state.activeRef, refs |-> rest]

\* a SetFocus case that returns the state it was given
ReduceSetFocus_Ignored(state, ref) == state

\* case Type.SetFocus
ReduceSetFocus(state, ref) == [state EXCEPT !.activeRef = ref]

\* const reducer = (state: IState, action: IAction) => ...
reducer(state, action) ==
    CASE action.type = Type_Register   -> ReduceRegister(state, action.payload.ref)
      [] action.type = Type_Unregister -> ReduceUnregister(state, action.payload.ref)
      [] action.type = Type_SetFocus   -> ReduceSetFocus(state, action.payload.ref)
      [] OTHER                         -> state

\* const isActive = context.state.activeRef === ref
isActive(state, ref) == state.activeRef = ref

\* ------------------------------------------------------ onKeyDownHandler
Key_HOME == "Home"

Key_END == "End"

Key_ARROW_UP == "ArrowUp"

Key_ARROW_DOWN == "ArrowDown"

\* the keys of the switch and one key it has no case for
Keys == {Key_HOME, Key_END, Key_ARROW_UP, Key_ARROW_DOWN, "Enter"}

\* ev.target.tagName: the two the handler leaves alone and one other
TagNames == {"INPUT", "TEXTAREA", "DIV"}

\* an ARROW_UP case that jumps to the first ref
ArrowUpIndex_ToFirst(idx, len) ==
    IF len > 0 /\ idx > 0 THEN 0 ELSE 0 - 1

\* case Key.ARROW_UP: the index to focus, -1 for none (idx is the index of
\* activeRef in refs, len is refs.length)
ArrowUpIndex(idx, len) ==
    IF len > 0 /\ idx > 0 THEN idx - 1 ELSE 0 - 1

\* an ARROW_DOWN case without the check against the last index
ArrowDownIndex_NoBound(idx, len) ==
    IF len > 0 THEN idx + 1 ELSE 0 - 1

\* case Key.ARROW_DOWN: the index to focus, -1 for none
ArrowDownIndex(idx, len) ==
    IF len > 0 /\ idx < len - 1 THEN idx + 1 ELSE 0 - 1

\* case Key.HOME: the index to focus, -1 for none
HomeIndex(len) == IF len > 0 THEN 0 ELSE 0 - 1

\* case Key.END: the index to focus, -1 for none
EndIndex(len) == IF len > 0 THEN len - 1 ELSE 0 - 1

\* The switch of onKeyDownHandler.  handled: the local `handled`;
\* focusIndex: the index into state.refs of the ref whose element gets
\* .focus(), or -1 when no element does.
KeySwitch(state, key, handleHomeEnd, handleUpDown) ==
    LET len   == Len(state.refs)
        idx   == IndexOf(state.refs, state.activeRef)
        to(k) == [handled |-> TRUE, focusIndex |-> k]
    IN  CASE key = Key_HOME /\ handleHomeEnd       -> to(HomeIndex(len))
          [] key = Key_END /\ handleHomeEnd        -> to(EndIndex(len))
          [] key = Key_ARROW_UP /\ handleUpDown    -> to(ArrowUpIndex(idx, len))
          [] key = Key_ARROW_DOWN /\ handleUpDown  -> to(ArrowDownIndex(idx, len))
          [] OTHER -> [handled |-> FALSE, focusIndex |-> 0 - 1]

\* a handler that does not look at the tag name of the target
onKeyDownHandler_AnyTarget(state, ev, handleHomeEnd, handleUpDown) ==
    KeySwitch(state, ev.key, handleHomeEnd, handleUpDown)

\* onKeyDownHandler up to the `if (handled)` at its end
onKeyDownHandler(state, ev, handleHomeEnd, handleUpDown) ==
    IF ev.tagName # "INPUT" /\ ev.tagName # "TEXTAREA"
    THEN KeySwitch(state, ev.key, handleHomeEnd, handleUpDown)
    ELSE [handled |-> FALSE, focusIndex |-> 0 - 1]

\* ---------------------------------------------------------------- actions
\* what `last` holds for a dispatch: the state it was applied to, the action,
\* and blank key-event fields
Dispatched(op, ref) ==
    [op |-> op, ref |-> ref, before |-> State, key |-> "", tagName |-> "",
     handleHomeEnd |-> FALSE, handleUpDown |-> FALSE, hasOnKeyDown |-> FALSE,
     handled |-> FALSE, prevented |-> FALSE, consumerCalled |-> FALSE,
     focusIndex |-> 0 - 1]

\* useReducer(reducer, { activeRef: null, refs: [] })
Init ==
    /\ activeRef = Null
    /\ refs = <<>>
    /\ last = Dispatched("init", Null)
    /\ room = [known |-> FALSE, joinedMembers |-> <<>>]
    /\ pc = "idle"
    /\ candidates = <<>>

\* context.dispatch(action): the reducer's result becomes the state
dispatch(action) ==
    LET next == reducer(State, action)
    IN  /\ activeRef' = next.activeRef
        /\ refs' = next.refs

\* useRovingTabIndex, layout effect: a component holding `ref` mounts
register(ref) ==
    /\ Len(refs) < MaxRefs
    /\ dispatch([type |-> Type_Register, payload |-> [ref |-> ref]])
    /\ last' = Dispatched("register", ref)

\* useRovingTabIndex, teardown of the layout effect
unregister(ref) ==
    /\ dispatch([type |-> Type_Unregister, payload |-> [ref |-> ref]])
    /\ last' = Dispatched("unregister", ref)

\* useRovingTabIndex, onFocus: the element of `ref` gained focus
setFocus(ref) ==
    /\ dispatch([type |-> Type_SetFocus, payload |-> [ref |-> ref]])
    /\ last' = Dispatched("setFocus", ref)

\* One key event through onKeyDownHandler.  element.focus() on a target makes
\* the target's component call its onFocus, which dispatches SetFocus for the
\* target's ref before the next event is processed.  prevented: the handler
\* called ev.preventDefault() and ev.stopPropagation(); consumerCalled: it
\* called the onKeyDown prop, handing it context.state, the state the handler
\* itself read (before).
keyDown(key, tagName, handleHomeEnd, handleUpDown, hasOnKeyDown) ==
    LET res    == onKeyDownHandler(State, [key |-> key, tagName |-> tagName],
                                   handleHomeEnd, handleUpDown)
        target == At(refs, res.focusIndex)
    IN  /\ IF res.focusIndex >= 0
           THEN dispatch([type |-> Type_SetFocus, payload |-> [ref |-> target]])
           ELSE UNCHANGED <<activeRef, refs>>
        /\ last' = [op |-> "keyDown", ref |-> Null, before |-> State,
                    key |-> key, tagName |-> tagName,
                    handleHomeEnd |-> handleHomeEnd, handleUpDown |-> handleUpDown,
                    hasOnKeyDown |-> hasOnKeyDown,
                    handled |-> res.handled,
                    prevented |-> res.handled,
                    consumerCalled |-> (~res.handled /\ hasOnKeyDown),
                    focusIndex |-> res.focusIndex]

Next ==
    \/ \E ref \in Refs : register(ref) /\ UNCHANGED matrixToVars
    \/ \E ref \in Refs : unregister(ref) /\ UNCHANGED matrixToVars
    \/ \E ref \in Refs : setFocus(ref) /\ UNCHANGED matrixToVars
    \/ \E key \in Keys, tagName \in TagNames :
           \E handleHomeEnd \in BOOLEAN, handleUpDown \in BOOLEAN,
              hasOnKeyDown \in BOOLEAN :
               /\ keyDown(key, tagName, handleHomeEnd, handleUpDown, hasOnKeyDown)
               /\ UNCHANGED matrixToVars

Spec == Init /\ [][Next]_vars

\* The registry as the hook drives it: onFocus belongs to a mounted component,
\* so SetFocus arrives only for a ref that is in refs.
RegisteredNext ==
    \/ \E ref \in Refs : register(ref) /\ UNCHANGED matrixToVars
    \/ \E ref \in Refs : unregister(ref) /\ UNCHANGED matrixToVars
    \/ \E ref \in Elems(refs) : setFocus(ref) /\ UNCHANGED matrixToVars
    \/ \E key \in Keys, tagName \in TagNames :
           \E handleHomeEnd \in BOOLEAN, handleUpDown \in BOOLEAN,
              hasOnKeyDown \in BOOLEAN :
               /\ keyDown(key, tagName, handleHomeEnd, handleUpDown, hasOnKeyDown)
               /\ UNCHANGED matrixToVars

RegisteredSpec == Init /\ [][RegisteredNext]_vars

TypeOK ==
    /\ activeRef \in Refs \cup {Null, Undefined}
    /\ refs \in Seq(Refs)
    /\ Len(refs) <= MaxRefs

\* ============================================================ matrix-to
\* pickServerCandidates of src/src/matrix-to.js.  A userId is held as the list
\* userId.split(":") yields, "@alice:z.org:8448" as <<"@alice", "z.org", "8448">>;
\* a server name is held the same way, "z.org:8448" as <<"z.org", "8448">>.

\* the users that may be joined to the room: two servers with two users each,
\* one server with a port in its name, and a fourth server
UserIds ==
    { <<"@a", "x.org">>, <<"@b", "x.org">>, <<"@c", "y.org">>,
      <<"@d", "z.org", "8448">>, <<"@e", "w.org">> }

\* member.powerLevel: a plain user, a moderator, an admin
PowerLevels == {0, 50, 100}

\* what an array read outside the array yields (undefined); no userId of the
\* model has the empty server name, so the empty name is free to stand for it
UndefinedName == <<>>

\* room.getJoinedMembers(): lists of members with distinct userIds
JoinedMemberLists ==
    { m \in UNION { [1..n -> [userId : UserIds, powerLevel : PowerLevels]] :
                        n \in 0..MaxMembers } :
          \A i, j \in 1..Len(m) : i # j => m[i].userId # m[j].userId }

\* member.userId.split(":").splice(1).join(":")
ServerNameOf(userId) == Tail(userId)

\* highestPlUser after the loop over the first n members
RECURSIVE HighestPlUser(_, _)
HighestPlUser(members, n) ==
    IF n = 0
    THEN [userId |-> UndefinedName, powerLevel |-> 0, serverName |-> UndefinedName]
    ELSE LET prev   == HighestPlUser(members, n - 1)
             member == members[n]
         IN  IF member.powerLevel > prev.powerLevel
             THEN [userId |-> member.userId, powerLevel |-> member.powerLevel,
                   serverName |-> ServerNameOf(member.userId)]
             ELSE prev

\* populationMap after the loop: joined members per server name
PopulationMap(members) ==
    [ name \in { ServerNameOf(members[i].userId) : i \in 1..Len(members) } |->
          Cardinality({ i \in 1..Len(members) :
                            ServerNameOf(members[i].userId) = name }) ]

\* Object.keys(populationMap).sort((a, b) => populationMap[a] - populationMap[b]):
\* every order of the keys the comparator allows (the order of keys with equal
\* counts is the engine's)
SortedKeys(populationMap) ==
    { keys \in [1..Cardinality(DOMAIN populationMap) -> DOMAIN populationMap] :
          /\ \A i, j \in DOMAIN keys : i # j => keys[i] # keys[j]
          /\ \A i, j \in DOMAIN keys :
                 i < j => populationMap[keys[i]] - populationMap[keys[j]] <= 0 }

\* .filter(a => !candidates.includes(a))
FilterChosen(keys, chosen) ==
    SelectSeq(keys, LAMBDA a : \A k \in 1..Len(chosen) : chosen[k] # a)

\* serversByPopulation[k] for a 0-based k
NameAt(arr, k) == IF k >= 0 /\ k < Len(arr) THEN arr[k + 1] ELSE UndefinedName

maxCandidates == 3

\* the while loop that fills candidates from serversByPopulation
RECURSIVE FillCandidates(_, _)
FillCandidates(chosen, serversByPopulation) ==
    IF Len(chosen) < maxCandidates /\ Len(chosen) <= Len(serversByPopulation)
    THEN FillCandidates(
             Append(chosen,
                    NameAt(serversByPopulation,
                           IF Len(chosen) - 1 > 0 THEN Len(chosen) - 1 ELSE 0)),
             serversByPopulation)
    ELSE chosen

\* pickServerCandidates(roomId), given the room of roomId and the order the
\* sort left the keys of populationMap in
pickServerCandidates(theRoom, sortedKeys) ==
    IF ~theRoom.known THEN <<>>
    ELSE LET members       == theRoom.joinedMembers
             highestPlUser == HighestPlUser(members, Len(members))
             first         == IF highestPlUser.powerLevel >= 50
                              THEN <<highestPlUser.serverName>> ELSE <<>>
         IN  FillCandidates(first, FilterChosen(sortedKeys, first))

\* a permalink is about to be made for a room: unknown to the client, or known
\* with some joined members
MatrixToInit ==
    /\ activeRef = Null
    /\ refs = <<>>
    /\ last = Dispatched("init", Null)
    /\ \/ room = [known |-> FALSE, joinedMembers |-> <<>>]
       \/ \E members \in JoinedMemberLists :
              room = [known |-> TRUE, joinedMembers |-> members]
    /\ pc = "called"
    /\ candidates = <<>>

\* makeRoomPermalink / makeEventPermalink: const serverCandidates =
\* pickServerCandidates(roomId)
pick ==
    /\ pc = "called"
    /\ \E sortedKeys \in SortedKeys(PopulationMap(room.joinedMembers)) :
           candidates' = pickServerCandidates(room, sortedKeys)
    /\ pc' = "returned"
    /\ UNCHANGED <<activeRef, refs, last, room>>

MatrixToNext == pick

MatrixToSpec == MatrixToInit /\ [][MatrixToNext]_vars

\* ---- what the claims about pickServerCandidates speak of
\* the server names of the joined members
JoinedServers == DOMAIN PopulationMap(room.joinedMembers)

\* joined members of a server
Population(name) == PopulationMap(room.joinedMembers)[name]

\* the highest power level among the joined members (0 for an empty room)
HighestPowerLevel ==
    IF Len(room.joinedMembers) = 0 THEN 0
    ELSE CHOOSE pl \in PowerLevels :
             /\ \E i \in 1..Len(room.joinedMembers) :
                    room.joinedMembers[i].powerLevel = pl
             /\ \A i \in 1..Len(room.joinedMembers) :
                    room.joinedMembers[i].powerLevel <= pl

\* ------------------------------------------------------------------ C11
\* C11: pickServerCandidates returns at most 3 candidates, pairwise distinct,
\* each the server name of at least one joined member (so no more candidates
\* than there are servers); an unknown room yields the empty list.
C11_CandidatesDistinctJoinedServers ==
    pc = "returned"
    => /\ Len(candidates) <= 3
       /\ \A i, j \in 1..Len(candidates) : i # j => candidates[i] # candidates[j]
       /\ \A i \in 1..Len(candidates) : candidates[i] \in JoinedServers
       /\ Len(candidates) <= Cardinality(JoinedServers)
       /\ ~room.known => candidates = <<>>

\* ------------------------------------------------------------------ C12
\* C12: for a room with at least one joined member the first candidate is the
\* server of a joined member with the highest power level when that level is
\* at least 50, and otherwise a server with the most joined members.
C12_FirstCandidate ==
    (pc = "returned" /\ room.known /\ Len(room.joinedMembers) > 0)
    => /\ Len(candidates) >= 1
       /\ IF HighestPowerLevel >= 50
          THEN \E i \in 1..Len(room.joinedMembers) :
                   /\ room.joinedMembers[i].powerLevel = HighestPowerLevel
                   /\ candidates[1] = ServerNameOf(room.joinedMembers[i].userId)
          ELSE /\ candidates[1] \in JoinedServers
               /\ \A name \in JoinedServers :
                      Population(candidates[1]) >= Population(name)

\* ------------------------------------------------------------------ C13
\* C13: each candidate after the first is a server not chosen before it that
\* has the most joined members among the servers not chosen before it: no
\* unchosen server has more joined members than Server 2 or Server 3.
C13_NextMostPopular ==
    pc = "returned"
    => \A k \in 2..Len(candidates) :
           LET before == { candidates[j] : j \in 1..(k - 1) }
           IN  /\ candidates[k] \in JoinedServers \ before
               /\ \A name \in JoinedServers \ before :
                      Population(candidates[k]) >= Population(name)

\* ------------------------------------------------------ shared vocabulary
\* activeRef holds no ref: null of the initial state, or the undefined that
\* refs[len - 1] yields once the last ref is removed
NoRef(value) == value \in {Null, Undefined}

\* an array is in document order: earlier entries hold earlier elements
InDocumentOrder(arr) ==
    \A i, j \in 1..Len(arr) : i < j => Current(arr[i]) < Current(arr[j])

\* the step just taken was this dispatch
Did(op) == last'.op = op

\* ------------------------------------------------------------------- C1
\* C1: after any sequence of register and unregister, with refs registered in
\* any order, refs is sorted by document position: for all indices i < j the
\* element of refs[i] precedes the element of refs[j].
C1_RefsInDocumentOrder == InDocumentOrder(refs)

\* ------------------------------------------------------------------- C2
\* C2: in every reachable state activeRef is either null or a member of refs,
\* whatever refs register, unregister, setFocus and the key handler were
\* given.
C2_ActiveRefNullOrMember == NoRef(activeRef) \/ activeRef \in Elems(refs)

C4_UnregisterActive ==
    [][ (Did("unregister") /\ last'.ref = activeRef /\ activeRef \in Elems(refs))
        => LET i == IndexOf(refs, activeRef)
               n == Len(refs)
           IN  /\ Len(refs') = n - 1
               /\ \A k \in 1..(n - 1) :
                      refs'[k] = IF k <= i THEN refs[k] ELSE refs[k + 1]
               /\ IF n = 1 THEN NoRef(activeRef')
                  ELSE IF i = n - 1 THEN activeRef' = refs'[n - 1]
                  ELSE activeRef' = refs'[i + 1]
               /\ (NoRef(activeRef') \/ activeRef' \in Elems(refs')) ]_vars

\* C4 witness: the active ref was unregistered from the middle of three refs
\* and the ref that followed it became active
C4_Witness ==
    /\ last.op = "unregister"
    /\ last.ref = last.before.activeRef
    /\ Len(last.before.refs) = 3
    /\ IndexOf(last.before.refs, last.ref) = 1
    /\ activeRef = last.before.refs[3]
    /\ activeRef # last.ref

\* ------------------------------------------------------------------- C5
\* C5: setFocus(ref) for a ref that is not in refs is ignored: activeRef and
\* refs are unchanged.
C5_SetFocusUnregisteredIgnored ==
    [][ (Did("setFocus") /\ last'.ref \notin Elems(refs))
        => UNCHANGED <<activeRef, refs>> ]_vars

\* ------------------------------------------------------------------- C6
\* C6: unregister(ref) for a ref that is not in refs is ignored (activeRef
\* and refs unchanged); hence unregistering the same ref twice leaves the
\* state that unregistering it once leaves.
C6_UnregisterAbsentIgnoredAndIdempotent ==
    [][ /\ (Did("unregister") /\ last'.ref \notin Elems(refs))
            => UNCHANGED <<activeRef, refs>>
        /\ Did("unregister")
            => ReduceUnregister([activeRef |-> activeRef', refs |-> refs'], last'.ref)
                   = [activeRef |-> activeRef', refs |-> refs'] ]_vars

\* ------------------------------------------------------ moveFocus, named
\* moveFocus(direction) is a key event the handler acts on: the target is no
\* INPUT or TEXTAREA, and the key's group is enabled by its prop
MovedFocus(key) ==
    /\ Did("keyDown")
    /\ last'.key = key
    /\ last'.tagName \notin {"INPUT", "TEXTAREA"}
    /\ IF key \in {Key_HOME, Key_END} THEN last'.handleHomeEnd
       ELSE IF key \in {Key_ARROW_UP, Key_ARROW_DOWN} THEN last'.handleUpDown
       ELSE FALSE

\* ------------------------------------------------------------------- C7
\* C7: moveFocus never moves past the first or last ref: 'previous' with
\* activeRef at index 0 and 'next' with activeRef at the last index are
\* no-ops, any moveFocus on an empty refs is a no-op, and whenever a key event
\* focuses a target, the target is refs[k] for an index k in [0, length - 1].
\* (The index of activeRef is the one the handler uses, refs.indexOf.)
C7_MoveFocusStaysInside ==
    [][ Did("keyDown")
        => LET i == IndexOf(refs, activeRef)
               n == Len(refs)
           IN  /\ (MovedFocus(Key_ARROW_UP) /\ i = 0) => UNCHANGED <<activeRef, refs>>
               /\ (MovedFocus(Key_ARROW_DOWN) /\ i = n - 1)
                      => UNCHANGED <<activeRef, refs>>
               /\ n = 0 => UNCHANGED <<activeRef, refs>>
               /\ last'.focusIndex >= 0
                      => /\ last'.focusIndex <= n - 1
                         /\ activeRef' = refs[last'.focusIndex + 1]
               /\ activeRef' # activeRef => last'.focusIndex >= 0 ]_vars

\* C7 witness: 'next' arrived with the active ref last of several, and the
\* active ref stayed
C7_Witness ==
    /\ last.op = "keyDown"
    /\ last.key = Key_ARROW_DOWN
    /\ last.handled
    /\ Len(last.before.refs) >= 2
    /\ IndexOf(last.before.refs, last.before.activeRef) = Len(last.before.refs) - 1
    /\ activeRef = last.before.activeRef
    /\ refs = last.before.refs

\* ------------------------------------------------------------------- C8
\* C8: register(ref) makes ref the activeRef exactly when refs was empty
\* before the call; a register into a non-empty refs leaves activeRef as it
\* was, so activeRef changes only by a register into an empty refs, a
\* setFocus (from onFocus or from a key event's focus()), or an unregister of
\* the active ref.
C8_RegisterSetsActiveOnlyWhenEmpty ==
    [][ /\ Did("register")
            => IF Len(refs) = 0 THEN activeRef' = last'.ref
               ELSE activeRef' = activeRef
        /\ activeRef' # activeRef
            => \/ Did("register") /\ Len(refs) = 0
               \/ Did("setFocus")
               \/ Did("keyDown") /\ last'.focusIndex >= 0
               \/ Did("unregister") /\ last'.ref = activeRef ]_vars

\* C8 witness: a second ref was registered and the first one stayed active
C8_Witness ==
    /\ last.op = "register"
    /\ Len(last.before.refs) = 1
    /\ last.ref \notin Elems(last.before.refs)
    /\ Len(refs) = 2
    /\ activeRef = last.before.refs[1]
    /\ activeRef # last.ref

\* ------------------------------------------------------------------- C9
\* C9: after setFocus(ref) on a ref that is in refs, activeRef is ref and refs
\* is unchanged; isActive is true for ref and false for every other ref in
\* refs.
C9_SetFocusRegistered ==
    [][ (Did("setFocus") /\ last'.ref \in Elems(refs))
        => LET after == [activeRef |-> activeRef', refs |-> refs']
           IN  /\ activeRef' = last'.ref
               /\ refs' = refs
               /\ isActive(after, last'.ref)
               /\ \A other \in Elems(refs') \ {last'.ref} : ~isActive(after, other)
       ]_vars

\* C9 witness: focus went from one registered ref to another
C9_Witness ==
    /\ last.op = "setFocus"
    /\ last.ref \in Elems(last.before.refs)
    /\ last.before.activeRef \in Elems(last.before.refs) \ {last.ref}
    /\ activeRef = last.ref
    /\ ~isActive(State, last.before.activeRef)

\* ------------------------------------------------------------------ C10
\* C10: with activeRef at index i of a refs of length n > 0, 'previous'
\* targets index i - 1 when i > 0, 'next' targets index i + 1 when i < n - 1,
\* 'first' targets index 0 and 'last' targets index n - 1 whatever i is; no
\* key event adds, removes or reorders refs.
C10_MoveFocusTarget ==
    [][ Did("keyDown")
        => LET i == IndexOf(refs, activeRef)
               n == Len(refs)
               Targets(k) == last'.focusIndex = k /\ activeRef' = refs[k + 1]
           IN  /\ refs' = refs
               /\ (n > 0 /\ MovedFocus(Key_ARROW_UP) /\ i > 0) => Targets(i - 1)
               /\ (n > 0 /\ MovedFocus(Key_ARROW_DOWN) /\ i < n - 1) => Targets(i + 1)
               /\ (n > 0 /\ MovedFocus(Key_HOME)) => Targets(0)
               /\ (n > 0 /\ MovedFocus(Key_END)) => Targets(n - 1) ]_vars

\* C10 witness: 'previous' moved the focus from the third ref to the second
C10_Witness ==
    /\ last.op = "keyDown"
    /\ last.key = Key_ARROW_UP
    /\ last.handled
    /\ Len(last.before.refs) = 3
    /\ IndexOf(last.before.refs, last.before.activeRef) = 2
    /\ activeRef = refs[2]
    /\ activeRef # last.before.activeRef

\* ------------------------------------------------------------------ C14
\* C14: when setFocus is applied only to refs that are in refs, a non-empty
\* refs always has an activeRef that is a ref and a member of refs, so exactly
\* one registered ref reports isActive.
C14_ExactlyOneActive ==
    Len(refs) > 0
    => /\ ~NoRef(activeRef)
       /\ activeRef \in Elems(refs)
       /\ Cardinality({ref \in Elems(refs) : isActive(State, ref)}) = 1

\* C14 witness: the active ref was unregistered while others stayed, and one
\* of those is active now
C14_Witness ==
    /\ last.op = "unregister"
    /\ last.ref = last.before.activeRef
    /\ last.ref \notin Elems(refs)
    /\ Len(refs) >= 2
    /\ activeRef \in Elems(refs)
    /\ Cardinality({ref \in Elems(refs) : isActive(State, ref)}) = 1

\* ------------------------------------------------------------------ C15
\* C15: unregister(ref) of a ref that is in refs and is not activeRef leaves
\* activeRef unchanged and removes exactly one occurrence of ref, every other
\* entry of refs keeping its place relative to the others.
C15_UnregisterInactive ==
    [][ (Did("unregister") /\ last'.ref \in Elems(refs) /\ last'.ref # activeRef)
        => /\ activeRef' = activeRef
           /\ \E i \in 1..Len(refs) :
                  /\ refs[i] = last'.ref
                  /\ refs' = SubSeq(refs, 1, i - 1) \o SubSeq(refs, i + 1, Len(refs))
       ]_vars

\* C15 witness: a ref other than the active one was unregistered from the
\* middle of three and the active ref stayed
C15_Witness ==
    /\ last.op = "unregister"
    /\ Len(last.before.refs) = 3
    /\ last.before.refs[2] = last.ref
    /\ last.before.activeRef \in Elems(last.before.refs) \ {last.ref}
    /\ activeRef = last.before.activeRef
    /\ refs = <<last.before.refs[1], last.before.refs[3]>>

\* ------------------------------------------------------------------ C16
\* C16: a key event is handled exactly when its target is no INPUT or TEXTAREA
\* and the key is Home/End with handleHomeEnd or ArrowUp/ArrowDown with
\* handleUpDown, whatever refs and activeRef are; a handled event is prevented
\* and stopped and onKeyDown is not called; an unhandled event focuses nothing,
\* changes no state, and goes to onKeyDown (when the consumer gave one) with
\* the current state.
C16_HandledExactlyWhen ==
    [][ Did("keyDown")
        => LET navigation ==
                   \/ last'.key \in {Key_HOME, Key_END} /\ last'.handleHomeEnd
                   \/ last'.key \in {Key_ARROW_UP, Key_ARROW_DOWN} /\ last'.handleUpDown
               expected == last'.tagName \notin {"INPUT", "TEXTAREA"} /\ navigation
           IN  /\ last'.handled <=> expected
               /\ last'.handled => last'.prevented /\ ~last'.consumerCalled
               /\ ~last'.handled
                      => /\ last'.focusIndex < 0
                         /\ UNCHANGED <<activeRef, refs>>
                         /\ ~last'.prevented
                         /\ last'.consumerCalled <=> last'.hasOnKeyDown
                         /\ last'.consumerCalled
                                => last'.before = [activeRef |-> activeRef', refs |-> refs']
       ]_vars

\* C16 witness: Home arrived at an INPUT with handleHomeEnd on and refs not
\* empty; it was not handled and went to the consumer
C16_Witness ==
    /\ last.op = "keyDown"
    /\ last.key = Key_HOME
    /\ last.handleHomeEnd
    /\ last.tagName = "INPUT"
    /\ Len(refs) >= 2
    /\ ~last.handled
    /\ last.consumerCalled
    /\ last.before = State

====
